---- MODULE Spec2Model ----
(***************************************************************************)
(* Model of app/services/vector_store.py (VectorStore) and                 *)
(* app/services/colbert_service.py (ColbertService).                       *)
(*                                                                         *)
(* The Qdrant client, the embedding models and uuid4 are external: their   *)
(* outcomes (success / exception, the ranking a query returns) are         *)
(* nondeterministic choices; uuid4 is a fresh-identifier generator.        *)
(***************************************************************************)
EXTENDS Integers, Sequences, FiniteSets

VARIABLES
    settings,           \* get_settings(): colbert_enabled, colbert_multivector_enabled
    collection,         \* the store's collection: exists, has a "colbert" vector space
    colbert_service,    \* ColbertService: enabled, model (loaded or None)
    pc,                 \* position of the caller in the VectorStore life cycle
    attempts,           \* liveness probes (get_collections) made by __init__
    error,              \* exception propagated by the last operation, "none" if none
    nextId,             \* uuid4 stream: the next fresh identifier
    args,               \* arguments of the running upsert_chunks call
    points,             \* upsert_chunks: local list points
    chunk_ids,          \* upsert_chunks: local list chunk_ids
    batch_size,         \* upsert_chunks: local batch_size
    idx,                \* upsert_chunks: loop variable i of the batch loop (0-based offset)
    writeCalls,         \* every client.upsert call made, in call order (batches)
    committed,          \* records the store has committed, in commit order
    returned,           \* value returned by the last operation (upsert_chunks: the ids;
                        \* search: the hits, by id), <<"none">> before it returns
    embedCalls,         \* embedding-model calls made by the running operation
    request,            \* arguments of the search call
    queries,            \* every client.query_points call made by search, in call order
    storeRanks          \* per vector space, the store's ranking of the records that
                        \* pass the filter of the issued query

vars == <<settings, collection, colbert_service, pc, attempts, error, nextId, args,
          points, chunk_ids, batch_size, idx, writeCalls, committed, returned,
          embedCalls, request, queries, storeRanks>>

----------------------------------------------------------------------------
(* Bounds of the model *)

MaxSmall == 12
MaxLargeBatches == 2
MaxSkew == 1
MaxTopK == 2
NumRecords == 3

(* The retry limit the specification gives ConnectionManager.connect *)

MaxConnectAttempts == 3

(* Program constants *)

ColbertBatch == 5
DefaultBatch == 50
OverFetch == 3

----------------------------------------------------------------------------
(* Helpers *)

Min2(a, b) == IF a <= b THEN a ELSE b

Min3(a, b, c) == Min2(a, Min2(b, c))

Take(s, n) == SubSeq(s, 1, Min2(n, Len(s)))

Range(s) == {s[i] : i \in 1..Len(s)}

RECURSIVE Flatten(_)
Flatten(ss) == IF ss = <<>> THEN <<>> ELSE Head(ss) \o Flatten(Tail(ss))

NoValue == <<"none">>

\* The search arguments before any search call
NoRequest ==
    [mode |-> "unset", query_vector |-> "none", query_text |-> "none", top_k |-> 0,
     filter_conditions |-> "none"]

----------------------------------------------------------------------------
(* Inputs *)

\* chunks[i], embeddings[i], metadatas[i] are the i-th caller-supplied values
InputSeq(tag, n) == [i \in 1..n |-> <<tag, i>>]

ChunkLens ==
    (0..MaxSmall) \cup
    {q * DefaultBatch + d : q \in 1..MaxLargeBatches, d \in (0 - MaxSkew)..MaxSkew}

OtherLens(n) == {m \in (n - MaxSkew)..(n + MaxSkew) : m >= 0}

----------------------------------------------------------------------------
(* ColbertService *)

\* ColbertService.__init__: enabled follows the setting, and is switched off
\* when the model fails to initialise.
ColbertServiceInit(flag, modelOk) ==
    [enabled |-> flag /\ modelOk, model |-> flag /\ modelOk]

\* generate_colbert_vectors(texts): [] when disabled or no model, else one
\* multi-vector per text.
GenerateColbertVectors(svc, texts) ==
    IF ~svc.enabled \/ ~svc.model
    THEN <<>>
    ELSE [i \in 1..Len(texts) |-> <<"colbert", texts[i]>>]

\* SparseVectorService.generate_sparse_vector(text)
GenerateSparseVector(text) == <<"sparse", text>>

----------------------------------------------------------------------------
(* VectorStore.__init__ / _ensure_collection *)

\* Variant: the cause is wrapped in a connectivity error
EnsureCollectionRaises_Wrapped(cause) == "ConnectivityError"

\* _ensure_collection, lines 55-57: the caught exception is logged and re-raised
\* as it is; nothing is retried
EnsureCollectionRaises(cause) == cause

\* Schema of the collection create_collection declares
CreatedSchema(st) ==
    [exists |-> TRUE, colbert |-> st.colbert_multivector_enabled]

Init ==
    /\ settings \in [colbert_enabled : BOOLEAN, colbert_multivector_enabled : BOOLEAN]
    /\ collection \in {[exists |-> FALSE, colbert |-> FALSE],
                       [exists |-> TRUE, colbert |-> FALSE],
                       [exists |-> TRUE, colbert |-> TRUE]}
    /\ colbert_service = [enabled |-> FALSE, model |-> FALSE]
    /\ pc = "new"
    /\ attempts = 0
    /\ error = "none"
    /\ nextId = 1
    /\ args = [chunks |-> <<>>, embeddings |-> <<>>, metadatas |-> <<>>]
    /\ points = <<>>
    /\ chunk_ids = <<>>
    /\ batch_size = 0
    /\ idx = 0
    /\ writeCalls = <<>>
    /\ committed = <<>>
    /\ returned = NoValue
    /\ embedCalls = <<>>
    /\ request = NoRequest
    /\ queries = <<>>
    /\ storeRanks = [dense |-> <<>>, sparse |-> <<>>, colbert |-> <<>>]

\* VectorStore.__init__: ColbertService(), then _ensure_collection(): one
\* get_collections probe, create_collection when the collection is absent;
\* any exception is logged and re-raised.
Construct(modelOk, probeOk, createOk) ==
    /\ pc = "new"
    /\ colbert_service' = ColbertServiceInit(settings.colbert_enabled, modelOk)
    /\ attempts' = attempts + 1
    /\ IF ~probeOk
       THEN /\ pc' = "init_failed"
            /\ error' = EnsureCollectionRaises("ProbeFailure")
            /\ UNCHANGED collection
       ELSE IF collection.exists
       THEN /\ pc' = "ready"
            /\ UNCHANGED <<error, collection>>
       ELSE IF createOk
       THEN /\ pc' = "ready"
            /\ collection' = CreatedSchema(settings)
            /\ UNCHANGED error
       ELSE /\ pc' = "init_failed"
            /\ error' = EnsureCollectionRaises("CreateRejected")
            /\ UNCHANGED collection
    /\ UNCHANGED <<settings, nextId, args, points, chunk_ids, batch_size, idx,
                   writeCalls, committed, returned, embedCalls, request, queries,
                   storeRanks>>

----------------------------------------------------------------------------
(* VectorStore.upsert_chunks *)

\* zip(chunks, embeddings, metadatas) stops at the shortest sequence
ZipLen(a) == Min3(Len(a.chunks), Len(a.embeddings), Len(a.metadatas))

\* vector_dict of the i-th point
VectorDict(svc, a, colbert_vectors, i) ==
    [dense |-> a.embeddings[i],
     sparse |-> GenerateSparseVector(a.chunks[i]),
     colbert |-> IF svc.enabled /\ colbert_vectors /= <<>>
                 THEN colbert_vectors[i] ELSE NoValue]

\* Variant: the identifier is generated once, before the loop
BuildPoint_ReusedId(svc, a, colbert_vectors, base, i) ==
    [id |-> base,
     vector |-> VectorDict(svc, a, colbert_vectors, i),
     payload |-> [content |-> a.chunks[i], metadata |-> a.metadatas[i]]]

\* PointStruct of the i-th chunk; ids are drawn from the uuid4 stream in order
BuildPoint(svc, a, colbert_vectors, base, i) ==
    [id |-> base + i - 1,
     vector |-> VectorDict(svc, a, colbert_vectors, i),
     payload |-> [content |-> a.chunks[i], metadata |-> a.metadatas[i]]]

BuildPoints(svc, a, colbert_vectors, base) ==
    [i \in 1..ZipLen(a) |-> BuildPoint(svc, a, colbert_vectors, base, i)]

\* Variant: the large batch size whatever the service state
BatchSize_AlwaysDefault(svc) == DefaultBatch

\* batch_size = 5 if self.colbert_service.enabled else 50
BatchSize(svc) == IF svc.enabled THEN ColbertBatch ELSE DefaultBatch

\* points[i:i + batch_size]
Slice(s, i, n) == SubSeq(s, i + 1, Min2(i + n, Len(s)))

\* The embedding-model calls of a call that gets through lines 69-95: one
\* batched colbert call when the service is enabled, then one sparse call per
\* zipped chunk
UpsertEmbedCalls(svc, a) ==
    (IF svc.enabled THEN <<"colbert">> ELSE <<>>) \o [i \in 1..ZipLen(a) |-> "sparse"]

\* Lines 66-99: embeddings, the point list, the batch size.  An exception of an
\* embedding model (here: of the first call made) propagates before any write.
UpsertBegin(a, embedOk) ==
    /\ pc = "ready"
    /\ args' = a
    /\ IF embedOk
       THEN LET cv == GenerateColbertVectors(colbert_service, a.chunks)
                pts == BuildPoints(colbert_service, a, cv, nextId)
            IN /\ embedCalls' = UpsertEmbedCalls(colbert_service, a)
               /\ points' = pts
               /\ chunk_ids' = [i \in 1..Len(pts) |-> pts[i].id]
               /\ nextId' = nextId + Len(pts)
               /\ batch_size' = BatchSize(colbert_service)
               /\ idx' = 0
               /\ pc' = "upserting"
               /\ UNCHANGED error
       ELSE /\ UpsertEmbedCalls(colbert_service, a) /= <<>>
            /\ embedCalls' = <<Head(UpsertEmbedCalls(colbert_service, a))>>
            /\ pc' = "upsert_failed"
            /\ error' = "EmbeddingError"
            /\ UNCHANGED <<points, chunk_ids, nextId, batch_size, idx>>
    /\ UNCHANGED <<settings, collection, colbert_service, attempts, writeCalls,
                   committed, returned, request, queries, storeRanks>>

\* Variant: the exception is swallowed and the loop goes on to the next batch
WriteFailed_Continue(i, n) == [pc |-> "upserting", idx |-> i + n, error |-> "none"]

\* Lines 110-112: a failed client.upsert leaves the loop; the exception is
\* logged and re-raised, the remaining batches are not written
WriteFailed(i, n) == [pc |-> "upsert_failed", idx |-> i, error |-> "WriteFailure"]

\* One iteration of the batch loop (lines 100-106): a single client.upsert
\* call; its exception is logged and re-raised (lines 110-112).
UpsertWriteBatch(writeOk) ==
    /\ pc = "upserting"
    /\ idx < Len(points)
    /\ LET batch_points == Slice(points, idx, batch_size)
       IN /\ writeCalls' = Append(writeCalls, batch_points)
          /\ IF writeOk
             THEN /\ committed' = committed \o batch_points
                  /\ idx' = idx + batch_size
                  /\ UNCHANGED <<pc, error>>
             ELSE /\ pc' = WriteFailed(idx, batch_size).pc
                  /\ idx' = WriteFailed(idx, batch_size).idx
                  /\ error' = WriteFailed(idx, batch_size).error
                  /\ UNCHANGED committed
    /\ UNCHANGED <<settings, collection, colbert_service, attempts, nextId, args,
                   points, chunk_ids, batch_size, returned, embedCalls, request,
                   queries, storeRanks>>

\* Line 109: return chunk_ids
UpsertReturn ==
    /\ pc = "upserting"
    /\ idx >= Len(points)
    /\ pc' = "upsert_done"
    /\ returned' = chunk_ids
    /\ UNCHANGED <<settings, collection, colbert_service, attempts, error, nextId,
                   args, points, chunk_ids, batch_size, idx, writeCalls, committed,
                   embedCalls, request, queries, storeRanks>>

UpsertArgs ==
    {[chunks |-> InputSeq("chunk", n), embeddings |-> InputSeq("dense", e),
      metadatas |-> InputSeq("meta", m)] :
        <<n, e, m>> \in {t \in ChunkLens \X (0..(MaxLargeBatches * DefaultBatch + MaxSkew + MaxSkew))
                                         \X (0..(MaxLargeBatches * DefaultBatch + MaxSkew + MaxSkew)) :
                            t[2] \in OtherLens(t[1]) /\ t[3] \in OtherLens(t[1])}}

----------------------------------------------------------------------------
(* The store: query_points *)

RecordIds == 1..NumRecords

\* Ranked hit lists: sequences of distinct record ids
Rankings ==
    UNION {{s \in [1..n -> RecordIds] : \A i, j \in 1..n : i /= j => s[i] /= s[j]} :
              n \in 0..NumRecords}

\* The hits of one vector space for the issued query: the space's ranking of the
\* records that pass the query's filter, cut at the limit
SpaceHits(ranks, using, limit) == Take(ranks[using], limit)

\* Reciprocal-rank fusion; scores are exact fractions <<numerator, denominator>>
RrfK == 60

PositionIn(s, r) == IF r \in Range(s) THEN CHOOSE i \in 1..Len(s) : s[i] = r ELSE 0

RrfTerm(s, r) == IF r \in Range(s) THEN <<1, RrfK + PositionIn(s, r)>> ELSE <<0, 1>>

FracAdd(a, b) == <<a[1] * b[2] + b[1] * a[2], a[2] * b[2]>>

FracGeq(a, b) == a[1] * b[2] >= b[1] * a[2]

RECURSIVE RrfScore(_, _)
RrfScore(lists, r) ==
    IF lists = <<>> THEN <<0, 1>>
    ELSE FracAdd(RrfTerm(Head(lists), r), RrfScore(Tail(lists), r))

\* The fused scores of records 1..n, as a sequence indexed by record id
RECURSIVE RrfScores(_, _)
RrfScores(lists, n) ==
    IF n = 0 THEN <<>> ELSE Append(RrfScores(lists, n - 1), RrfScore(lists, n))

\* The orderings of cands by descending score (ties in any order): a record of
\* maximal score first, then the others likewise
RECURSIVE Descending(_, _)
Descending(cands, score) ==
    IF cands = {} THEN {<<>>}
    ELSE UNION {{<<x>> \o rest : rest \in Descending(cands \ {x}, score)} :
                  x \in {y \in cands : \A z \in cands : FracGeq(score[y], score[z])}}

\* Every fused ordering of the candidates of the lists
FusedOrders(lists) ==
    Descending(UNION {Range(lists[i]) : i \in 1..Len(lists)}, RrfScores(lists, NumRecords))

\* The candidate lists of a fused query, one per prefetch
PrefetchLists(q, ranks) ==
    [i \in 1..Len(q.prefetch) |->
        SpaceHits(ranks, q.prefetch[i].using, q.prefetch[i].limit)]

\* The possible answers of the store to query q
StoreAnswers(q, ranks) ==
    IF q.fusion = "rrf"
    THEN {Take(o, q.limit) : o \in FusedOrders(PrefetchLists(q, ranks))}
    ELSE {SpaceHits(ranks, q.using, q.limit)}

----------------------------------------------------------------------------
(* VectorStore.search and the per-mode methods *)

\* Variant: only None is rejected (an "is None" test)
Truthy_NotNone(v) == v /= "none"

\* Python truthiness of an optional argument: None and the empty value are falsy
Truthy(v) == v = "value"

\* Lines 213-216: search_filter = None; filter_conditions are not translated
BuildSearchFilter(filter_conditions) == "none"

\* Variant: the prefetches are cut at top_k, before fusion
PrefetchLimit_TopK(top_k) == top_k

\* search_hybrid: Prefetch(..., limit=top_k * 3)
PrefetchLimit(top_k) == top_k * OverFetch

\* search_hybrid: query_points(..., limit=top_k)
HybridLimit(top_k) == top_k

SingleSpaceQuery(space, top_k, search_filter) ==
    [using |-> space, filter |-> search_filter, limit |-> top_k,
     prefetch |-> <<>>, fusion |-> "none"]

SearchDense(top_k, search_filter) == SingleSpaceQuery("dense", top_k, search_filter)

SearchSparse(top_k, search_filter) == SingleSpaceQuery("sparse", top_k, search_filter)

SearchColbertQuery(top_k, search_filter) == SingleSpaceQuery("colbert", top_k, search_filter)

\* search_hybrid passes search_filter neither to the prefetches nor to the query
SearchHybrid(top_k, search_filter) ==
    [using |-> "none", filter |-> "none", limit |-> HybridLimit(top_k),
     prefetch |-> <<[using |-> "sparse", filter |-> "none", limit |-> PrefetchLimit(top_k)],
                    [using |-> "dense", filter |-> "none", limit |-> PrefetchLimit(top_k)]>>,
     fusion |-> "rrf"]

\* Variant: the enabled test is missing
ColbertDisabled_Unchecked(svc) == FALSE

\* search_colbert: the soft-degrade test
ColbertDisabled(svc) == ~svc.enabled

\* Lines 219-236: what search does for a request: raise ValueError, return []
\* without a query, or embed the query text and issue one store query
Dispatch(req, svc) ==
    LET f == BuildSearchFilter(req.filter_conditions)
        raise == [kind |-> "raise", embed |-> <<>>, query |-> NoValue]
    IN CASE req.mode = "dense" ->
              IF ~Truthy(req.query_vector) THEN raise
              ELSE [kind |-> "query", embed |-> <<>>, query |-> SearchDense(req.top_k, f)]
         [] req.mode = "sparse" ->
              IF ~Truthy(req.query_text) THEN raise
              ELSE [kind |-> "query", embed |-> <<"sparse">>,
                    query |-> SearchSparse(req.top_k, f)]
         [] req.mode = "colbert" ->
              IF ~Truthy(req.query_text) THEN raise
              ELSE IF ColbertDisabled(svc)
              THEN [kind |-> "empty", embed |-> <<>>, query |-> NoValue]
              ELSE [kind |-> "query", embed |-> <<"colbert">>,
                    query |-> SearchColbertQuery(req.top_k, f)]
         [] req.mode = "hybrid" ->
              IF ~Truthy(req.query_text) \/ ~Truthy(req.query_vector) THEN raise
              ELSE [kind |-> "query", embed |-> <<"sparse">>,
                    query |-> SearchHybrid(req.top_k, f)]
         [] OTHER -> raise

Modes == {"dense", "sparse", "colbert", "hybrid", "other"}

Optional == {"none", "empty", "value"}

Requests ==
    [mode : Modes, query_vector : Optional, query_text : Optional,
     top_k : 1..MaxTopK, filter_conditions : {"none", "value"}]

\* The rankings the store holds; spaces the query does not read are left empty
UsedSpaces(q) ==
    IF q.fusion = "rrf" THEN {q.prefetch[i].using : i \in 1..Len(q.prefetch)} ELSE {q.using}

RanksOf(q, space) == IF space \in UsedSpaces(q) THEN Rankings ELSE {<<>>}

RankChoices(q) ==
    [dense : RanksOf(q, "dense"), sparse : RanksOf(q, "sparse"),
     colbert : RanksOf(q, "colbert")]

\* Lines 247-249: every exception of search is logged and re-raised as it is
SearchReraise(cause) == cause

\* VectorStore.search: the whole call, one action per outcome.
SearchRaises(req) ==
    /\ pc = "ready"
    /\ Dispatch(req, colbert_service).kind = "raise"
    /\ request' = req
    /\ pc' = "search_failed"
    /\ error' = SearchReraise("ValueError")
    /\ UNCHANGED <<settings, collection, colbert_service, attempts, nextId, args,
                   points, chunk_ids, batch_size, idx, writeCalls, committed, returned,
                   embedCalls, queries, storeRanks>>

SearchSoftDegrade(req) ==
    /\ pc = "ready"
    /\ Dispatch(req, colbert_service).kind = "empty"
    /\ request' = req
    /\ pc' = "search_done"
    /\ returned' = <<>>
    /\ UNCHANGED <<settings, collection, colbert_service, attempts, error, nextId, args,
                   points, chunk_ids, batch_size, idx, writeCalls, committed,
                   embedCalls, queries, storeRanks>>

SearchEmbedFails(req) ==
    /\ pc = "ready"
    /\ Dispatch(req, colbert_service).kind = "query"
    /\ Dispatch(req, colbert_service).embed /= <<>>
    /\ request' = req
    /\ embedCalls' = Dispatch(req, colbert_service).embed
    /\ pc' = "search_failed"
    /\ error' = SearchReraise("EmbeddingError")
    /\ UNCHANGED <<settings, collection, colbert_service, attempts, nextId, args,
                   points, chunk_ids, batch_size, idx, writeCalls, committed, returned,
                   queries, storeRanks>>

SearchQueries(req, queryOk) ==
    /\ pc = "ready"
    /\ Dispatch(req, colbert_service).kind = "query"
    /\ LET plan == Dispatch(req, colbert_service)
       IN /\ request' = req
          /\ embedCalls' = plan.embed
          /\ queries' = <<plan.query>>
          /\ IF queryOk
             THEN \E rk \in RankChoices(plan.query) :
                    /\ storeRanks' = rk
                    /\ returned' \in StoreAnswers(plan.query, rk)
                    /\ pc' = "search_done"
                    /\ UNCHANGED error
             ELSE /\ pc' = "search_failed"
                  /\ error' = SearchReraise("QueryFailure")
                  /\ UNCHANGED <<returned, storeRanks>>
    /\ UNCHANGED <<settings, collection, colbert_service, attempts, nextId, args,
                   points, chunk_ids, batch_size, idx, writeCalls, committed>>

----------------------------------------------------------------------------
(* Properties *)

EqualLengths(a) ==
    Len(a.chunks) = Len(a.embeddings) /\ Len(a.chunks) = Len(a.metadatas)

InUpsert == pc \in {"upserting", "upsert_done", "upsert_failed"}

CeilDiv(n, b) == (n + b - 1) \div b

\* The batch size the contract gives: 5 with the multi-vector service enabled,
\* 50 otherwise
ContractBatch == IF colbert_service.enabled THEN 5 ELSE 50

\* C1: for equal-length chunks/embeddings/metadatas, a successful upsert returns
\* exactly len(chunks) identifiers, pairwise distinct, and the i-th identifier is
\* the id of the record built from the i-th chunk, its embedding and its
\* metadata, whatever the batches were.
C1_UpsertReturnsIdsInOrder ==
    (pc = "upsert_done" /\ EqualLengths(args)) =>
        /\ Len(returned) = Len(args.chunks)
        /\ \A i, j \in 1..Len(returned) : i /= j => returned[i] /= returned[j]
        /\ Len(committed) = Len(args.chunks)
        /\ \A i \in 1..Len(returned) :
              /\ committed[i].id = returned[i]
              /\ committed[i].payload.content = args.chunks[i]
              /\ committed[i].payload.metadata = args.metadatas[i]
              /\ committed[i].vector.dense = args.embeddings[i]

\* C1 witness: an equal-length call of more than one batch has returned
C1_Witness ==
    /\ pc = "upsert_done"
    /\ EqualLengths(args)
    /\ Len(writeCalls) >= 2
    /\ Len(returned) = Len(args.chunks)

\* C2: for mismatched-length inputs upsert fails with InvalidArgument and performs
\* zero store writes: no client.upsert call is ever made for inputs whose
\* lengths differ, so nothing truncated to the shortest sequence is written.
C2_MismatchWritesNothing ==
    (InUpsert /\ ~EqualLengths(args)) => writeCalls = <<>>

\* C3: no write call carries more than B records (B = 5 with multi-vector
\* enabled, 50 otherwise); every call but the last carries exactly B; the calls,
\* concatenated in order, are the records in input order; a completed upsert of n
\* records made exactly ceil(n/B) calls.
C3_Batching ==
    InUpsert =>
        LET B == ContractBatch
            n == Len(points)
            w == Len(writeCalls)
        IN /\ \A k \in 1..w : Len(writeCalls[k]) >= 1 /\ Len(writeCalls[k]) <= B
           /\ \A k \in 1..w : k < CeilDiv(n, B) => Len(writeCalls[k]) = B
           /\ w <= CeilDiv(n, B)
           /\ Flatten(writeCalls) = SubSeq(points, 1, Len(Flatten(writeCalls)))
           /\ pc = "upsert_done" =>
                 /\ w = CeilDiv(n, B)
                 /\ Flatten(writeCalls) = points

\* C3 witness: 12 records with multi-vector enabled went out as 5, 5, 2
C3_Witness ==
    /\ pc = "upsert_done"
    /\ colbert_service.enabled
    /\ Len(points) = 12
    /\ Len(writeCalls) = 3
    /\ Len(writeCalls[1]) = 5 /\ Len(writeCalls[2]) = 5 /\ Len(writeCalls[3]) = 2

\* C4: the k-th write call carries the k-th batch of the input (sequential, in
\* order, each batch once); when the write of batch j fails, the call ends with
\* the error and no ids, batch j is the last call made, and the committed
\* records are exactly batches 1..j-1, a prefix of the input.
C4_FailureLeavesPrefix ==
    InUpsert =>
        LET w == Len(writeCalls)
        IN /\ \A k \in 1..w : writeCalls[k] = Slice(points, (k - 1) * ContractBatch, ContractBatch)
           /\ committed = SubSeq(points, 1, Len(committed))
           /\ (pc = "upsert_failed" /\ error = "WriteFailure") =>
                 /\ returned = NoValue
                 /\ w >= 1
                 /\ committed = Flatten(SubSeq(writeCalls, 1, w - 1))
                 /\ Len(committed) = (w - 1) * ContractBatch
           /\ pc = "upserting" => committed = Flatten(writeCalls)

\* C4 witness: the third batch failed after two were committed
C4_Witness ==
    /\ pc = "upsert_failed"
    /\ error = "WriteFailure"
    /\ Len(writeCalls) = 3
    /\ Len(committed) = 2 * ContractBatch
    /\ Len(points) > Len(committed) + ContractBatch

Searched == request.mode /= "unset"

KnownModes == {"dense", "sparse", "colbert", "hybrid"}

\* The query is the one of the mode: one space, or the fusion of sparse and dense
QueryOfMode(q, mode) ==
    IF mode = "hybrid"
    THEN /\ q.fusion = "rrf"
         /\ {q.prefetch[i].using : i \in 1..Len(q.prefetch)} = {"sparse", "dense"}
    ELSE q.fusion = "none" /\ q.using = mode /\ q.prefetch = <<>>

\* An optional input counts as absent when it is None or, with emptyIsAbsent,
\* when it is empty
Absent(v, emptyIsAbsent) == v = "none" \/ (emptyIsAbsent /\ v = "empty")

\* The request lacks an input its mode requires, or its mode is unknown
LacksInput(req, emptyIsAbsent) ==
    \/ req.mode = "dense" /\ Absent(req.query_vector, emptyIsAbsent)
    \/ req.mode \in {"sparse", "colbert"} /\ Absent(req.query_text, emptyIsAbsent)
    \/ req.mode = "hybrid" /\ (\/ Absent(req.query_text, emptyIsAbsent)
                                \/ Absent(req.query_vector, emptyIsAbsent))
    \/ req.mode \notin KnownModes

RejectedUnqueried == pc = "search_failed" /\ error = "ValueError" /\ queries = <<>>

\* C5 as stated: search fails with InvalidArgument (ValueError) and no store
\* query when the input its mode requires is absent (None) or the mode is
\* unknown; in every other case the query of the requested mode is issued.
\* Stated for calls whose optional inputs are None or non-empty and whose query
\* embedding did not fail.
C5_AbsentRejectedElseQueried ==
    (Searched /\ request.query_vector /= "empty" /\ request.query_text /= "empty"
        /\ error /= "EmbeddingError") =>
        IF LacksInput(request, FALSE)
        THEN RejectedUnqueried
        ELSE Len(queries) = 1 /\ QueryOfMode(queries[1], request.mode)

\* C5 amended: a required input that is None or empty, or an unknown mode, fails
\* with ValueError and no store query; in every other case exactly the query of
\* the requested mode is issued, except that colbert mode with the service
\* disabled returns [] without a query and that a failure of the query embedding
\* ends the call before the query.
C5_MissingRejectedElseQueried ==
    Searched =>
        IF LacksInput(request, TRUE)
        THEN RejectedUnqueried
        ELSE IF request.mode = "colbert" /\ ~colbert_service.enabled
        THEN pc = "search_done" /\ returned = <<>> /\ queries = <<>>
        ELSE IF pc = "search_failed" /\ error = "EmbeddingError"
        THEN queries = <<>> /\ request.mode /= "dense"
        ELSE Len(queries) = 1 /\ QueryOfMode(queries[1], request.mode) /\ error /= "ValueError"

\* C5 witness: hybrid mode without a query vector was rejected before any query
C5_Witness ==
    /\ Searched
    /\ request.mode = "hybrid"
    /\ request.query_vector = "none"
    /\ request.query_text = "value"
    /\ RejectedUnqueried

\* C6: colbert search (with its query text) while the multi-vector service is
\* not enabled returns an empty list, not an error, and makes neither an
\* embedding call nor a store query; also when the service switched itself off
\* after a failed model initialisation.
C6_ColbertSoftDegrade ==
    (Searched /\ request.mode = "colbert" /\ request.query_text = "value"
        /\ ~colbert_service.enabled) =>
        /\ pc = "search_done"
        /\ returned = <<>>
        /\ error = "none"
        /\ embedCalls = <<>>
        /\ queries = <<>>

\* C6 witness: the setting enables colbert, the model failed to load, and a
\* colbert search returned []
C6_Witness ==
    /\ Searched
    /\ request.mode = "colbert"
    /\ request.query_text = "value"
    /\ settings.colbert_enabled
    /\ ~colbert_service.enabled
    /\ pc = "search_done"
    /\ returned = <<>>

InOne(x, d, s) == (x \in Range(d)) /= (x \in Range(s))

\* C8: with fused score = sum of 1/(k + rank) over the lists a record is in, a
\* record first in both the dense and the sparse candidate list (each of up to
\* topK * 3 entries) ranks at or above every record that is in only one list,
\* and the hybrid result is the first topK entries of the fused ordering.
C8_FusionMonotonic ==
    (pc = "search_done" /\ request.mode = "hybrid") =>
        LET k == request.top_k
            d == Take(storeRanks.dense, 3 * k)
            s == Take(storeRanks.sparse, 3 * k)
        IN /\ \E o \in FusedOrders(<<s, d>>) : returned = Take(o, k)
           /\ \A r \in RecordIds :
                (d /= <<>> /\ s /= <<>> /\ d[1] = r /\ s[1] = r) =>
                    \A x \in Range(returned) :
                        InOne(x, d, s) =>
                            /\ r \in Range(returned)
                            /\ PositionIn(returned, r) <= PositionIn(returned, x)

\* C8 witness: a record first in both lists leads a result that also holds a
\* record of one list only, and fusion had more candidates than topK
C8_Witness ==
    /\ pc = "search_done"
    /\ request.mode = "hybrid"
    /\ storeRanks.dense /= <<>> /\ storeRanks.sparse /= <<>>
    /\ storeRanks.dense[1] = storeRanks.sparse[1]
    /\ Len(returned) = 2
    /\ returned[1] = storeRanks.dense[1]
    /\ InOne(returned[2], storeRanks.dense, storeRanks.sparse)
    /\ Cardinality(Range(storeRanks.dense) \cup Range(storeRanks.sparse)) > request.top_k

\* C9: when search is called with a non-empty filter, every store query of the
\* call, the two prefetches of hybrid mode included, carries that filter.
C9_FilterCarried ==
    (Searched /\ request.filter_conditions = "value") =>
        \A i \in 1..Len(queries) :
            /\ queries[i].fusion = "none" => queries[i].filter = "value"
            /\ \A j \in 1..Len(queries[i].prefetch) :
                  queries[i].prefetch[j].filter = "value"

\* C10: every record handed to the store has a dense and a sparse vector, and
\* has a colbert multi-vector only if the collection's schema declares the
\* colbert space.
C10_ColbertOnlyInSchema ==
    \A k \in 1..Len(writeCalls) :
        \A i \in 1..Len(writeCalls[k]) :
            LET v == writeCalls[k][i].vector
            IN /\ v.dense /= NoValue
               /\ v.sparse /= NoValue
               /\ v.colbert /= NoValue => collection.colbert

----------------------------------------------------------------------------

ConstructStep ==
    pc = "new" /\ \E modelOk, probeOk, createOk \in BOOLEAN : Construct(modelOk, probeOk, createOk)

UpsertBeginStep ==
    pc = "ready" /\ \E a \in UpsertArgs, embedOk \in BOOLEAN : UpsertBegin(a, embedOk)

UpsertWriteStep ==
    pc = "upserting" /\ \E writeOk \in BOOLEAN : UpsertWriteBatch(writeOk)

SearchRaisesStep == pc = "ready" /\ \E req \in Requests : SearchRaises(req)

SearchSoftDegradeStep == pc = "ready" /\ \E req \in Requests : SearchSoftDegrade(req)

SearchEmbedFailsStep == pc = "ready" /\ \E req \in Requests : SearchEmbedFails(req)

SearchQueriesStep ==
    pc = "ready" /\ \E req \in Requests, queryOk \in BOOLEAN : SearchQueries(req, queryOk)

NextUpsert ==
    \/ ConstructStep
    \/ UpsertBeginStep
    \/ UpsertWriteStep
    \/ UpsertReturn

NextSearch ==
    \/ ConstructStep
    \/ SearchRaisesStep
    \/ SearchSoftDegradeStep
    \/ SearchEmbedFailsStep
    \/ SearchQueriesStep

Next ==
    \/ ConstructStep
    \/ UpsertBeginStep
    \/ UpsertWriteStep
    \/ UpsertReturn
    \/ SearchRaisesStep
    \/ SearchSoftDegradeStep
    \/ SearchEmbedFailsStep
    \/ SearchQueriesStep

Spec == Init /\ [][Next]_vars

SpecUpsert == Init /\ [][NextUpsert]_vars

SpecSearch == Init /\ [][NextSearch]_vars

====
